---- MODULE Spec2Model ----
(***************************************************************************)
(* Model of the Elevated Plus Maze analysis script                         *)
(* (EPM_Full_Analysis_FIXED.py.py): the wide table, the column parser, the *)
(* long-form record loop, paired_stats, the per-cell results loop, the     *)
(* within-group Holm correction and the derived tables S1-S5.              *)
(*                                                                         *)
(* Conventions                                                             *)
(*  - a column name is a sequence of one-character strings, so that        *)
(*    replace / startswith / in / split act on characters as in Python;    *)
(*  - a cell value is the symbolic pair <<row, column id>>: no step of the *)
(*    script branches on a value, and the pair tells which cell a number   *)
(*    in an array came from;                                               *)
(*  - a p-value is an integer number of percent (5 is 0.05, 100 is 1.0);   *)
(*    the p-values of scipy (shapiro, ttest_rel, wilcoxon) are inputs      *)
(*    drawn from small sets, Holm's arithmetic is computed;                *)
(*  - Statistic and Cohens_dz are library floats no step branches on and   *)
(*    are left out of the result rows; plotting is left out.               *)
(***************************************************************************)
EXTENDS Integers, Sequences, FiniteSets, TLC

VARIABLES
    header,     \* DATA_COLS: the data columns of df, in table order
    params,     \* df[PARAM_COL]: the Parameter of each table row, in order
    pc,         \* position of the script
    err,        \* the exception that ended the script and the step that raised it
    records,    \* records / long_df
    ci,         \* index of the next (Parameter, Group) cell of the results loop
    call,       \* locals of the latest paired_stats call
    results,    \* results / results_df (p_holm = NaN until corrected)
    subject_tables,        \* rows of Supplementary Table S3
    locomotion_results,    \* rows of Supplementary Table S4
    within_subject_tables, \* rows of Supplementary Table S5
    written     \* the supplementary tables written to OUT_DIR

vars == <<header, params, pc, err, records, ci, call, results,
          subject_tables, locomotion_results, within_subject_tables, written>>

\* ------------------------------------------------------------------
\* Bounds of the model
\* ------------------------------------------------------------------
\* subjects of a fully measured group
NSubj == 3
\* rows of the input table
MaxRows == 2

\* ------------------------------------------------------------------
\* Program constants
\* ------------------------------------------------------------------
\* minimum number of values per condition (len(off) < 3 or len(on) < 3)
MinN == 3
\* normality threshold 0.05, in percent
Alpha == 5
\* the largest p-value, 1.0, in percent
PMax == 100

None == [none |-> TRUE]
NaN == -1

GROUPS == <<"PD", "Control">>
COND_ORDER == <<"No-Stim", "Stim">>
PRIMARY_EPM_PARAMS == <<"Time_OpenArms", "Percent_OpenArms">>
LOCOMOTION_PARAMS == <<"MeanSpeed_Overall_cm/s", "Entries_ClosedArms">>

\* ------------------------------------------------------------------
\* Python string operations on character sequences
\* ------------------------------------------------------------------
IsNoise(ch) == ch \in {" ", "-"}
NotNoise(ch) == ~IsNoise(ch)

\* col.replace(" ", "").replace("-", "")
StripNoise(s) == SelectSeq(s, NotNoise)

\* s.startswith(p)
StartsWith(s, p) == Len(s) >= Len(p) /\ SubSeq(s, 1, Len(p)) = p

\* p in s
Contains(s, p) ==
    \E i \in 1..(Len(s) - Len(p) + 1) : SubSeq(s, i, i + Len(p) - 1) = p

\* s.split(sep)[0]
SplitFirst(s, sep) ==
    IF \E i \in 1..Len(s) : s[i] = sep
    THEN LET i == CHOOSE i \in 1..Len(s) :
                      s[i] = sep /\ \A j \in 1..(i - 1) : s[j] # sep
         IN SubSeq(s, 1, i - 1)
    ELSE s

\* ------------------------------------------------------------------
\* parse_column
\* ------------------------------------------------------------------
ParseGroup(c) ==
    IF StartsWith(c, <<"P", "D">>) THEN "PD"
    ELSE IF StartsWith(c, <<"C", "O">>) THEN "Control"
    ELSE "unresolved"

ParseCondition(c) ==
    IF Contains(c, <<"N", "o", "S", "t", "i", "m">>) THEN "No-Stim"
    ELSE IF Contains(c, <<"S", "t", "i", "m">>) THEN "Stim"
    ELSE "unresolved"

parse_column(col) ==
    LET c == StripNoise(col) IN
    IF ParseGroup(c) = "unresolved" THEN None
    ELSE IF ParseCondition(c) = "unresolved" THEN None
    ELSE [subject |-> SplitFirst(c, "_"),
          group |-> ParseGroup(c),
          condition |-> ParseCondition(c)]

\* ------------------------------------------------------------------
\* Input tables (df): column headers and Parameter rows
\* ------------------------------------------------------------------
DigitChars == <<"1", "2", "3", "4", "5", "6", "7", "8", "9">>

Prefix(g) == IF g = "PD" THEN <<"P", "D">> ELSE <<"C", "O">>

CondChars(cond) ==
    IF cond = "No-Stim" THEN <<"N", "o", "S", "t", "i", "m">>
    ELSE <<"S", "t", "i", "m">>

Styles == {"underscore", "compact", "mixed", "noisy"}
Orders == {"blocked", "interleaved", "stimreversed"}
Extras == {"none", "aux", "nocond", "single"}

\* the name of the column of subject k of group g under condition cond:
\*   underscore  PD_1_NoStim / PD_1_Stim
\*   compact     PD1_NoStim  / PD1_Stim
\*   mixed       PD_1_NoStim / PD1_Stim
\*   noisy       PD-1_No-Stim / PD 1_Stim
ColName(g, k, cond, style) ==
    LET d == DigitChars[k]
        us == Prefix(g) \o <<"_", d, "_">> \o CondChars(cond)
        cp == Prefix(g) \o <<d, "_">> \o CondChars(cond)
    IN CASE style = "underscore" -> us
         [] style = "compact" -> cp
         [] style = "mixed" -> IF cond = "No-Stim" THEN us ELSE cp
         [] style = "noisy" ->
              IF cond = "No-Stim"
              THEN Prefix(g) \o <<"-", d, "_", "N", "o", "-", "S", "t", "i", "m">>
              ELSE Prefix(g) \o <<" ", d, "_", "S", "t", "i", "m">>

\* a column: its name, and the animal and condition it was measured on
\* (grp = "none" for a column that holds no measurement)
Col(g, k, cond, style) ==
    [name |-> ColName(g, k, cond, style), grp |-> g, k |-> k, cond |-> cond]

\* the 2n columns of a group of n subjects
GroupCols(g, n, style, order) ==
    [i \in 1..(2 * n) |->
        CASE order = "blocked" ->
               IF i <= n THEN Col(g, i, "No-Stim", style)
               ELSE Col(g, i - n, "Stim", style)
          [] order = "interleaved" ->
               Col(g, (i + 1) \div 2,
                   IF i % 2 = 1 THEN "No-Stim" ELSE "Stim", style)
          [] order = "stimreversed" ->
               IF i <= n THEN Col(g, i, "No-Stim", style)
               ELSE Col(g, 2 * n - i + 1, "Stim", style)]

ExtraCols(extra) ==
    CASE extra = "none" -> <<>>
      [] extra = "aux" ->
           <<[name |-> <<"X", "Y", "Z", "_", "9", "9">>,
              grp |-> "none", k |-> 0, cond |-> "none"]>>
      [] extra = "nocond" ->
           <<[name |-> <<"P", "D", "_", "1", "_", "R", "e", "s", "t">>,
              grp |-> "none", k |-> 0, cond |-> "none"]>>
      [] extra = "single" -> <<Col("PD", NSubj + 1, "Stim", "compact")>>

\* every column gets the id of its position in the table
WithIds(cols) ==
    [i \in 1..Len(cols) |->
        [id |-> i, name |-> cols[i].name, grp |-> cols[i].grp,
         k |-> cols[i].k, cond |-> cols[i].cond]]

Layout(npd, nco, style, order, extra) ==
    WithIds(GroupCols("PD", npd, style, order) \o ExtraCols(extra)
            \o GroupCols("Control", nco, style, order))

GroupSizes == {0, MinN - 1, NSubj}

Variants ==
    {<<s, "blocked", "none">> : s \in Styles}
    \cup {<<"compact", o, "none">> : o \in Orders}
    \cup {<<"compact", "blocked", e>> : e \in Extras}

\* the tables of the model: every pair of group sizes in the plain variant
\* and with a one-condition subject; the other variants with a Control
\* group too small to be tested
Shapes ==
    {sh \in GroupSizes \X GroupSizes \X Variants :
        \/ sh[3] = <<"compact", "blocked", "none">>
        \/ sh[3][3] = "single"
        \/ sh[2] < MinN}

Layouts == {Layout(sh[1], sh[2], sh[3][1], sh[3][2], sh[3][3]) : sh \in Shapes}

ParamNames == {"Time_OpenArms", "MeanSpeed_Overall_cm/s"}

ParamColumns == UNION {[1..n -> ParamNames] : n \in 0..MaxRows}

\* p-values of the normality test and of the paired tests, in percent
PNormVals == {4, 5, 6}
PRawVals == {2, 60}

\* ------------------------------------------------------------------
\* Build long dataframe (records loop)
\* ------------------------------------------------------------------
RECURSIVE RowRecordsBreak(_, _, _)
\* as RowRecords, with `break` in place of `continue`
RowRecordsBreak(param, r, cols) ==
    IF cols = <<>> THEN <<>>
    ELSE LET col == Head(cols)
             parsed == parse_column(col.name)
         IN IF parsed = None THEN <<>>
            ELSE <<[Parameter |-> param,
                    Subject |-> parsed.subject,
                    Group |-> parsed.group,
                    Condition |-> parsed.condition,
                    Value |-> <<r, col.id>>]>>
                 \o RowRecordsBreak(param, r, Tail(cols))

RECURSIVE RowRecords(_, _, _)
\* the inner loop: the records of table row r, one per resolvable column
RowRecords(param, r, cols) ==
    IF cols = <<>> THEN <<>>
    ELSE LET col == Head(cols)
             parsed == parse_column(col.name)
         IN IF parsed = None THEN RowRecords(param, r, Tail(cols))
            ELSE <<[Parameter |-> param,
                    Subject |-> parsed.subject,
                    Group |-> parsed.group,
                    Condition |-> parsed.condition,
                    Value |-> <<r, col.id>>]>>
                 \o RowRecords(param, r, Tail(cols))

RECURSIVE BuildFrom(_, _, _)
BuildFrom(r, ps, cols) ==
    IF r > Len(ps) THEN <<>>
    ELSE RowRecords(ps[r], r, cols) \o BuildFrom(r + 1, ps, cols)

\* the outer loop over df.iterrows()
BuildRecords(ps, cols) == BuildFrom(1, ps, cols)

\* ------------------------------------------------------------------
\* paired_stats
\* ------------------------------------------------------------------
\* long_df[(long_df["Parameter"] == param) & (long_df["Group"] == group)]
Subset(recs, param, group) ==
    LET Keep(x) == x.Parameter = param /\ x.Group = group
    IN SelectSeq(recs, Keep)

\* data[data["Condition"] == cond]["Value"].values
ValuesOf(data, cond) ==
    LET Keep(x) == x.Condition = cond
        rows == SelectSeq(data, Keep)
    IN [i \in 1..Len(rows) |-> rows[i].Value]

\* as TooFew, with `and` in place of `or`
TooFewBoth(off, on) == Len(off) < MinN /\ Len(on) < MinN

\* len(off) < 3 or len(on) < 3
TooFew(off, on) == Len(off) < MinN \/ Len(on) < MinN

\* diff = on - off raises ValueError when the two shapes do not broadcast
\* (two one-dimensional arrays of different lengths, neither of length 1)
DiffRaises(off, on) ==
    Len(off) # Len(on) /\ Len(off) # 1 /\ Len(on) # 1

\* as SelectTest, with >= in place of >
SelectTestGeq(p_norm) ==
    IF p_norm >= Alpha THEN "Paired t-test" ELSE "Wilcoxon signed-rank"

\* if p_norm > 0.05: ttest_rel, "Paired t-test"; else: wilcoxon
SelectTest(p_norm) ==
    IF p_norm > Alpha THEN "Paired t-test" ELSE "Wilcoxon signed-rank"

\* ------------------------------------------------------------------
\* The (Parameter, Group) cells of the results loop
\* ------------------------------------------------------------------
RECURSIVE UniqueSeq(_, _)
UniqueSeq(s, seen) ==
    IF s = <<>> THEN <<>>
    ELSE IF Head(s) \in seen THEN UniqueSeq(Tail(s), seen)
    ELSE <<Head(s)>> \o UniqueSeq(Tail(s), seen \cup {Head(s)})

\* long_df["Parameter"].unique(): in order of first appearance
UniqueParams(recs) ==
    UniqueSeq([i \in 1..Len(recs) |-> recs[i].Parameter], {})

\* for param in unique: for group in ["PD", "Control"]
Cells(recs) ==
    LET u == UniqueParams(recs)
    IN [i \in 1..(2 * Len(u)) |->
          [param |-> u[(i + 1) \div 2], group |-> GROUPS[2 - (i % 2)]]]

\* ------------------------------------------------------------------
\* Holm correction (statsmodels multipletests(pvals, method="holm"))
\* ------------------------------------------------------------------
\* the place of pvals[i] in np.argsort(pvals); ties are taken in index order
\* (equal p-values get equal corrected values whatever their order)
Rank(pvals, i) ==
    1 + Cardinality({j \in 1..Len(pvals) :
                        \/ pvals[j] < pvals[i]
                        \/ pvals[j] = pvals[i] /\ j < i})

SeqMax(s, n) == CHOOSE x \in {s[j] : j \in 1..n} : \A j \in 1..n : s[j] <= x

\* pvals sorted, times arange(ntests, 0, -1), maximum.accumulate, values
\* above 1 set to 1, and put back in the order of pvals
Holm(pvals) ==
    LET m == Len(pvals)
        sortind == [r \in 1..m |->
                      CHOOSE i \in 1..m : Rank(pvals, i) = r]
        sorted == [r \in 1..m |-> pvals[sortind[r]]]
        raw == [r \in 1..m |-> sorted[r] * (m - r + 1)]
        acc == [r \in 1..m |-> SeqMax(raw, r)]
        clipped == [r \in 1..m |-> IF acc[r] > PMax THEN PMax ELSE acc[r]]
    IN [i \in 1..m |-> clipped[Rank(pvals, i)]]

\* as Holm, without putting the corrected values back in the order of pvals
HolmSorted(pvals) ==
    LET m == Len(pvals)
        sortind == [r \in 1..m |->
                      CHOOSE i \in 1..m : Rank(pvals, i) = r]
        sorted == [r \in 1..m |-> pvals[sortind[r]]]
        raw == [r \in 1..m |-> sorted[r] * (m - r + 1)]
        acc == [r \in 1..m |-> SeqMax(raw, r)]
    IN [r \in 1..m |-> IF acc[r] > PMax THEN PMax ELSE acc[r]]

\* results_df["Group"].unique()
UniqueGroups(res) ==
    UniqueSeq([i \in 1..Len(res) |-> res[i].Group], {})

\* the rows of res selected by mask = results_df["Group"] == grp
MaskIdx(res, grp) ==
    LET Keep(i) == res[i].Group = grp
    IN SelectSeq([i \in 1..Len(res) |-> i], Keep)

\* place of row i among the rows of the mask
PlaceIn(idx, i) == CHOOSE n \in 1..Len(idx) : idx[n] = i

\* pvals = results_df.loc[mask, "p_raw"].values; multipletests;
\* results_df.loc[mask, "p_holm"] = p_corr
CorrectGroup(res, grp) ==
    LET idx == MaskIdx(res, grp)
        pvals == [n \in 1..Len(idx) |-> res[idx[n]].p_raw]
        p_corr == Holm(pvals)
    IN [i \in 1..Len(res) |->
          IF res[i].Group = grp
          THEN [res[i] EXCEPT !.p_holm = p_corr[PlaceIn(idx, i)]]
          ELSE res[i]]

RECURSIVE HolmLoop(_, _)
HolmLoop(res, grps) ==
    IF grps = <<>> THEN res
    ELSE HolmLoop(CorrectGroup(res, Head(grps)), Tail(grps))

\* one family over all rows, whatever their Group
HolmPooled(res) ==
    LET p_corr == Holm([i \in 1..Len(res) |-> res[i].p_raw])
    IN [i \in 1..Len(res) |-> [res[i] EXCEPT !.p_holm = p_corr[i]]]

\* the correction applied in the order of the sorted p-values
HolmUnordered(res) ==
    LET Fix(r, grp) ==
          LET idx == MaskIdx(r, grp)
              p_corr == HolmSorted([n \in 1..Len(idx) |-> r[idx[n]].p_raw])
          IN [i \in 1..Len(r) |->
                IF r[i].Group = grp
                THEN [r[i] EXCEPT !.p_holm = p_corr[PlaceIn(idx, i)]]
                ELSE r[i]]
    IN Fix(Fix(res, "PD"), "Control")

\* for grp in results_df["Group"].unique(): correct the rows of grp
HolmCorrection(res) == HolmLoop(res, UniqueGroups(res))

\* ------------------------------------------------------------------
\* Derived tables
\* ------------------------------------------------------------------
SeqToSet(s) == {s[i] : i \in 1..Len(s)}

\* the Measurements of the PD group for param
Temp(recs, param) == Subset(recs, param, "PD")

\* wide["Stim"] - wide["No-Stim"] raises KeyError when the pivot has no
\* column for one of the two conditions
PivotRaises(temp) ==
    \E cond \in SeqToSet(COND_ORDER) :
        \A i \in 1..Len(temp) : temp[i].Condition # cond

\* temp.pivot_table(index="Subject", columns="Condition", values="Value"):
\* one row per distinct Subject; each condition's entry is the mean of the
\* cells listed (no cell: NaN). The order of the rows is not modelled.
Pivot(temp, param) ==
    {[Parameter |-> param,
      Subject |-> sb,
      NoStim |-> {temp[i].Value : i \in {j \in 1..Len(temp) :
                     temp[j].Subject = sb /\ temp[j].Condition = "No-Stim"}},
      Stim |-> {temp[i].Value : i \in {j \in 1..Len(temp) :
                     temp[j].Subject = sb /\ temp[j].Condition = "Stim"}}] :
     sb \in {temp[i].Subject : i \in 1..Len(temp)}}

\* the primary parameters that have PD Measurements (if temp.empty: continue)
PresentPrimary(recs) ==
    {q \in SeqToSet(PRIMARY_EPM_PARAMS) : Temp(recs, q) # <<>>}

\* the list of pivoted tables, as the set of their rows
PrimaryTables(recs) ==
    UNION {Pivot(Temp(recs, q), q) : q \in PresentPrimary(recs)}

PrimaryRaises(recs) ==
    \E q \in PresentPrimary(recs) : PivotRaises(Temp(recs, q))

\* pd.concat(within_subject_tables) raises ValueError on an empty list
ConcatRaises(present) == present = {}

PresentLocomotion(recs) ==
    {q \in SeqToSet(LOCOMOTION_PARAMS) : Temp(recs, q) # <<>>}

\* stats.ttest_rel(on, off) raises ValueError on arrays of unequal length
LocomotionRaises(recs) ==
    \E q \in PresentLocomotion(recs) :
        Len(ValuesOf(Temp(recs, q), "No-Stim"))
            # Len(ValuesOf(Temp(recs, q), "Stim"))

\* as EmptyCheckRaises, for a check that is never taken
EmptyCheckNever(recs) == FALSE

\* if long_df.empty: raise RuntimeError
EmptyCheckRaises(recs) == recs = <<>>

\* ------------------------------------------------------------------
\* The script
\* ------------------------------------------------------------------
NoError == [type |-> "none", at |-> "none"]

NoCall ==
    [param |-> "", group |-> "", off |-> <<>>, on |-> <<>>,
     p_norm |-> NaN, ret |-> "not called", test |-> "", p |-> NaN]

Init ==
    /\ header \in Layouts
    /\ params \in ParamColumns
    /\ pc = "build"
    /\ err = NoError
    /\ records = <<>>
    /\ ci = 1
    /\ call = NoCall
    /\ results = <<>>
    /\ subject_tables = {}
    /\ locomotion_results = {}
    /\ within_subject_tables = {}
    /\ written = {}

Raise(e) == pc' = "aborted" /\ err' = [type |-> e, at |-> pc]

\* lines 71-87: the records loop
BuildLongDataFrame ==
    /\ pc = "build"
    /\ records' = BuildRecords(params, header)
    /\ pc' = "check"
    /\ UNCHANGED <<header, params, err, ci, call, results, subject_tables,
                   locomotion_results, within_subject_tables, written>>

\* lines 89-90
EmptyCheck ==
    /\ pc = "check"
    /\ IF EmptyCheckRaises(records)
       THEN Raise("RuntimeError")
       ELSE pc' = "stats" /\ err' = err
    /\ UNCHANGED <<header, params, records, ci, call, results, subject_tables,
                   locomotion_results, within_subject_tables, written>>

\* lines 122-139: one iteration of the results loop, paired_stats included
RunCell ==
    /\ pc = "stats"
    /\ ci <= Len(Cells(records))
    /\ LET cell == Cells(records)[ci]
           data == Subset(records, cell.param, cell.group)
           off == ValuesOf(data, "No-Stim")
           on == ValuesOf(data, "Stim")
           entry == [param |-> cell.param, group |-> cell.group,
                     off |-> off, on |-> on,
                     p_norm |-> NaN, ret |-> "None", test |-> "", p |-> NaN]
           next == IF ci + 1 > Len(Cells(records)) THEN "holm" ELSE "stats"
       IN IF TooFew(off, on)
          THEN /\ call' = entry
               /\ results' = results
               /\ ci' = ci + 1
               /\ pc' = next
               /\ err' = err
          ELSE IF DiffRaises(off, on)
          THEN /\ call' = [entry EXCEPT !.ret = "raised"]
               /\ results' = results
               /\ ci' = ci
               /\ Raise("ValueError")
          ELSE \E p_norm \in PNormVals, p \in PRawVals :
               /\ call' = [entry EXCEPT !.p_norm = p_norm,
                                        !.ret = "result",
                                        !.test = SelectTest(p_norm),
                                        !.p = p]
               /\ results' = Append(results,
                                [Parameter |-> cell.param,
                                 Group |-> cell.group,
                                 Test |-> SelectTest(p_norm),
                                 p_raw |-> p,
                                 p_holm |-> NaN])
               /\ ci' = ci + 1
               /\ pc' = next
               /\ err' = err
    /\ UNCHANGED <<header, params, records, subject_tables,
                   locomotion_results, within_subject_tables, written>>

\* lines 150-156 (the locals of the last paired_stats call are gone)
HolmStep ==
    /\ pc = "holm"
    /\ results' = HolmCorrection(results)
    /\ call' = NoCall
    /\ pc' = "save"
    /\ UNCHANGED <<header, params, err, records, ci, subject_tables,
                   locomotion_results, within_subject_tables, written>>

\* lines 162-170
SaveS1S2 ==
    /\ pc = "save"
    /\ written' = written \cup {"S1", "S2"}
    /\ pc' = "s3"
    /\ UNCHANGED <<header, params, err, records, ci, call, results,
                   subject_tables, locomotion_results, within_subject_tables>>

\* lines 182-207
SubjectLevelS3 ==
    /\ pc = "s3"
    /\ IF PrimaryRaises(records)
       THEN /\ Raise("KeyError")
            /\ UNCHANGED <<subject_tables, written>>
       ELSE /\ subject_tables' = PrimaryTables(records)
            /\ written' = IF PresentPrimary(records) # {}
                          THEN written \cup {"S3"} ELSE written
            /\ pc' = "s4"
            /\ err' = err
    /\ UNCHANGED <<header, params, records, ci, call, results,
                   locomotion_results, within_subject_tables>>

\* lines 213-241
LocomotionS4 ==
    /\ pc = "s4"
    /\ IF LocomotionRaises(records)
       THEN /\ Raise("ValueError")
            /\ UNCHANGED <<locomotion_results, written>>
       ELSE /\ locomotion_results' = PresentLocomotion(records)
            /\ written' = written \cup {"S4"}
            /\ pc' = "s5"
            /\ err' = err
    /\ UNCHANGED <<header, params, records, ci, call, results,
                   subject_tables, within_subject_tables>>

\* lines 309-339
WithinSubjectS5 ==
    /\ pc = "s5"
    /\ IF PrimaryRaises(records)
       THEN /\ Raise("KeyError")
            /\ UNCHANGED <<within_subject_tables, written>>
       ELSE IF ConcatRaises(PresentPrimary(records))
       THEN /\ Raise("ValueError")
            /\ UNCHANGED <<within_subject_tables, written>>
       ELSE /\ within_subject_tables' = PrimaryTables(records)
            /\ written' = written \cup {"S5"}
            /\ pc' = "figures"
            /\ err' = err
    /\ UNCHANGED <<header, params, records, ci, call, results,
                   subject_tables, locomotion_results>>

Next ==
    \/ BuildLongDataFrame
    \/ EmptyCheck
    \/ RunCell
    \/ HolmStep
    \/ SaveS1S2
    \/ SubjectLevelS3
    \/ LocomotionS4
    \/ WithinSubjectS5

Spec == Init /\ [][Next]_vars

\* ------------------------------------------------------------------
\* Vocabulary of the properties
\* ------------------------------------------------------------------
\* the state the records loop leaves (records does not change afterwards)
Built == pc = "check"
Checked == pc \notin {"build", "check"}
\* the state the Holm correction loop leaves (results_df does not change
\* afterwards)
Corrected == pc = "save"

AllCells == Cells(records)
CellOff(c) == ValuesOf(Subset(records, c.param, c.group), "No-Stim")
CellOn(c) == ValuesOf(Subset(records, c.param, c.group), "Stim")
CountOf(c, cond) ==
    Cardinality({i \in 1..Len(records) :
                   /\ records[i].Parameter = c.param
                   /\ records[i].Group = c.group
                   /\ records[i].Condition = cond})
Small(c) == CountOf(c, "No-Stim") < 3 \/ CountOf(c, "Stim") < 3
Malformed(c) ==
    /\ ~Small(c)
    /\ CountOf(c, "No-Stim") # CountOf(c, "Stim")
HasRow(c) ==
    \E i \in 1..Len(results) :
        results[i].Parameter = c.param /\ results[i].Group = c.group
Called == call.ret # "not called"
\* the results loop is running, has just ended or has raised (results does
\* not gain rows afterwards)
InResultsLoop == pc \in {"stats", "holm", "save"} \/ err.at = "stats"

\* the animal a cell value was measured on
AnimalOf(v) == <<v[1], header[v[2]].grp, header[v[2]].k>>

\* ------------------------------------------------------------------
\* C1: a call of paired_stats on arrays of equal length >= 3 returns a
\* result whose test name is "Paired t-test" exactly when p_norm > 0.05 and
\* "Wilcoxon signed-rank" for every p_norm <= 0.05, 0.05 included; the row
\* appended to results carries that name.
\* ------------------------------------------------------------------
C1_TestByNormality ==
    /\ (Called /\ Len(call.off) = Len(call.on) /\ Len(call.off) >= 3)
         => call.ret = "result"
    /\ call.ret = "result" =>
         /\ call.test \in {"Paired t-test", "Wilcoxon signed-rank"}
         /\ (call.test = "Paired t-test") <=> (call.p_norm > 5)
         /\ (call.p_norm <= 5) => (call.test = "Wilcoxon signed-rank")
         /\ results # <<>>
         /\ results[Len(results)].Test = call.test
         /\ results[Len(results)].Parameter = call.param
         /\ results[Len(results)].Group = call.group

\* a tested cell whose p_norm is exactly 0.05, decided for Wilcoxon
C1_Witness ==
    /\ call.ret = "result"
    /\ call.p_norm = 5
    /\ call.test = "Wilcoxon signed-rank"
    /\ Len(call.off) >= 3

\* ------------------------------------------------------------------
\* C2: a cell with fewer than 3 No-Stim or fewer than 3 Stim values gets no
\* result: paired_stats returns None, no row is added, nothing is raised and
\* the loop moves to the next cell; a row exists only for a cell with at
\* least 3 values on both sides.
\* ------------------------------------------------------------------
C2_SmallCellsSkipped ==
    LET cells == AllCells IN
    /\ InResultsLoop =>
       \A n \in 1..Len(cells) :
         LET small == Small(cells[n])
             row == HasRow(cells[n])
         IN /\ row => ~small
            /\ (Corrected /\ ~small) => row
    /\ (Called /\ (Len(call.off) < 3 \/ Len(call.on) < 3)) =>
         /\ call.ret = "None"
         /\ err = NoError
         /\ ci >= 2
         /\ cells[ci - 1] = [param |-> call.param, group |-> call.group]
         /\ ~HasRow(cells[ci - 1])
         /\ pc = IF ci > Len(cells) THEN "holm" ELSE "stats"

\* a small cell was skipped and a later cell of the same run got its row
C2_Witness ==
    /\ Corrected
    /\ \E n, m \in 1..Len(AllCells) :
         n < m /\ Small(AllCells[n]) /\ HasRow(AllCells[m])

\* ------------------------------------------------------------------
\* C3: the p_holm values of a Group's rows are the same for every result
\* collection that holds the same rows of that Group in the same order,
\* whatever the other Group's rows are (dropped, moved before, reversed,
\* given other p_raw values, or one more of them).
\* ------------------------------------------------------------------
OtherGroup(g) == IF g = "PD" THEN "Control" ELSE "PD"

RowsOf(res, g) ==
    LET Keep(x) == x.Group = g
    IN SelectSeq(res, Keep)

PHolmOf(res, g) ==
    LET rows == RowsOf(res, g)
    IN [i \in 1..Len(rows) |-> rows[i].p_holm]

Uncorrected(res) == [i \in 1..Len(res) |-> [res[i] EXCEPT !.p_holm = NaN]]

Reversed(s) == [i \in 1..Len(s) |-> s[Len(s) + 1 - i]]

\* result collections with the rows of g as in res and other rows of the
\* other Group
Alternatives(res, g) ==
    LET mine == RowsOf(res, g)
        theirs == RowsOf(res, OtherGroup(g))
        extra == [Parameter |-> "Time_Center", Group |-> OtherGroup(g),
                  Test |-> "Paired t-test", p_raw |-> 1, p_holm |-> NaN]
    IN {mine,
        theirs \o mine,
        mine \o Reversed(theirs),
        Append(res, extra),
        <<extra>> \o res}
       \cup {[i \in 1..Len(res) |->
                IF res[i].Group = g THEN res[i]
                ELSE [res[i] EXCEPT !.p_raw = v]] : v \in {1, 50, 99}}

C3_GroupsIndependent ==
    Corrected =>
      \A g \in {"PD", "Control"} :
        \A alt \in Alternatives(Uncorrected(results), g) :
          PHolmOf(HolmCorrection(alt), g) = PHolmOf(results, g)

\* both Groups have rows, and one family over both Groups would have given
\* the PD rows other values
C3_Witness ==
    /\ Corrected
    /\ Len(RowsOf(results, "PD")) >= 2
    /\ Len(RowsOf(results, "Control")) >= 2
    /\ PHolmOf(HolmPooled(Uncorrected(results)), "PD") # PHolmOf(results, "PD")

\* ------------------------------------------------------------------
\* C4: after the correction every row carries the Holm-adjusted value of
\* its own p_raw within its Group's family: p_holm >= p_raw, p_holm is
\* non-decreasing along increasing p_raw, and p_holm is the step-down value
\* min(1, max over the family's q <= p_raw of q * #{r in family : r >= q}).
\* ------------------------------------------------------------------
SetMax(S) == CHOOSE x \in S : \A y \in S : y <= x

Family(g) == {i \in 1..Len(results) : results[i].Group = g}

StepDown(i) ==
    LET fam == Family(results[i].Group)
        steps == {results[j].p_raw
                    * Cardinality({r \in fam :
                                     results[r].p_raw >= results[j].p_raw}) :
                  j \in {j \in fam : results[j].p_raw <= results[i].p_raw}}
    IN IF SetMax(steps) > 100 THEN 100 ELSE SetMax(steps)

BothConditions(c) ==
    {a \in {AnimalOf(CellOff(c)[i]) : i \in 1..Len(CellOff(c))} :
        \E j \in 1..Len(CellOn(c)) : AnimalOf(CellOn(c)[j]) = a}

C5_AlignedBySubject ==
    call.ret = "result" =>
      /\ Len(call.off) = Len(call.on)
      /\ Len(call.off)
           = Cardinality(BothConditions([param |-> call.param,
                                         group |-> call.group]))
      /\ \A i \in 1..Len(call.off) :
           AnimalOf(call.off[i]) = AnimalOf(call.on[i])

\* ------------------------------------------------------------------
\* C6: a cell whose No-Stim and Stim counts differ (both >= 3) does not
\* make the run raise, and once the results loop has ended every other
\* cell with at least 3 values on both sides has its row.
\* ------------------------------------------------------------------
C6_MalformedCellIsLocal ==
    (\E n \in 1..Len(AllCells) : Malformed(AllCells[n])) =>
      /\ err.at # "stats"
      /\ Checked /\ pc # "stats" =>
           \A n \in 1..Len(AllCells) :
             (~Small(AllCells[n]) /\ ~Malformed(AllCells[n]))
               => HasRow(AllCells[n])

\* ------------------------------------------------------------------
\* C7: parse_column gives the two columns of one animal the same Subject
\* and two animals of one Group different Subjects, so that S3 has one row
\* per animal and primary parameter.
\* ------------------------------------------------------------------
PDAnimals == {header[i].k : i \in {j \in 1..Len(header) : header[j].grp = "PD"}}

C7_SubjectIdentifiesAnimal ==
    /\ Built =>
         \A i, j \in 1..Len(records) :
           records[i].Group = records[j].Group =>
             ((header[records[i].Value[2]].k = header[records[j].Value[2]].k)
                <=> (records[i].Subject = records[j].Subject))
    /\ "S3" \in written =>
         \A q \in PresentPrimary(records) :
           Cardinality({row \in subject_tables : row.Parameter = q})
             = Cardinality(PDAnimals)

\* ------------------------------------------------------------------
\* C8: the records are exactly one per (row, resolvable column), in row
\* then column order, and are the records of the table without its
\* unresolvable columns; building them raises nothing.
\* ------------------------------------------------------------------
Resolvable(col) == parse_column(col.name) # None

Kept(cols) == SelectSeq(cols, Resolvable)

C8_UnresolvedColumnsSkipped ==
    Built =>
      LET kept == Kept(header)
          K == Len(kept)
      IN /\ Len(records) = Len(params) * K
         /\ \A r \in 1..Len(params) : \A n \in 1..K :
              LET rec == records[(r - 1) * K + n]
                  parsed == parse_column(kept[n].name)
              IN /\ rec.Parameter = params[r]
                 /\ rec.Value = <<r, kept[n].id>>
                 /\ rec.Subject = parsed.subject
                 /\ rec.Group = parsed.group
                 /\ rec.Condition = parsed.condition
         /\ records = BuildRecords(params, kept)
         /\ err = NoError

\* a table with an unresolvable column between resolvable ones, built
C8_Witness ==
    /\ Built
    /\ \E i, j, k \in 1..Len(header) :
         /\ i < j /\ j < k
         /\ Resolvable(header[i]) /\ ~Resolvable(header[j])
         /\ Resolvable(header[k])
         /\ \E n \in 1..Len(records) : records[n].Value = <<1, header[k].id>>

\* ------------------------------------------------------------------
\* C9: with zero Measurements the script ends in the RuntimeError of the
\* empty check, before any paired test and before any table is written;
\* with at least one Measurement that error is never raised.
\* ------------------------------------------------------------------
C9_EmptyIsFatal ==
    /\ (Checked /\ records = <<>>) =>
         /\ pc = "aborted"
         /\ err = [type |-> "RuntimeError", at |-> "check"]
         /\ call = NoCall
         /\ results = <<>>
         /\ written = {}
    /\ err.type = "RuntimeError" => records = <<>>
    /\ (Checked /\ records # <<>>) => err.at # "check"

\* a table with rows whose columns are all unresolvable, aborted
C9_Witness ==
    /\ pc = "aborted"
    /\ err.type = "RuntimeError"
    /\ params # <<>>
    /\ header # <<>>

\* a table with Measurements, past the empty check
C9_WitnessPass ==
    /\ pc = "stats"
    /\ records # <<>>

\* ------------------------------------------------------------------
\* C10: when no primary parameter has a PD Measurement, neither the S3
\* step nor the S5 step raises.
\* ------------------------------------------------------------------
C10_NoPrimaryIsSkipped ==
    (Checked /\ PresentPrimary(records) = {}) => err.at \notin {"s3", "s5"}

====
